---- MODULE Spec2Model ----
(***************************************************************************)
(* Graph 3-colouring over POSIX shared memory and named semaphores:        *)
(* one supervisor (Owner, consumer) and several generators (Producers)     *)
(* around a circular buffer.                                               *)
(*   supervisor.c : cleanup, handle_signal, main                           *)
(*   generator.c  : main, and the definitions of common.h                  *)
(***************************************************************************)
EXTENDS Integers, Sequences, FiniteSets, TLC

\* ------------------------------------------------------------------ bounds
\* The ring is scaled down from the 20 slots of common.h so that it fills,
\* wraps and blocks the generators within the explored state space.
BUFFER_SIZE == 2
\* Total number of valid candidates the generators hand to the write protocol.
MaxRecords == 3

\* ------------------------------------------------------- program constants
MAX_REMOVED_EDGES == 8
INT_MAX == 2147483647

SHM_NAME == "/graph_coloring_shm"
SEM_FREE == "/graph_coloring_sem_free"
SEM_USED == "/graph_coloring_sem_used"
SEM_MUTEX == "/graph_coloring_sem_mutex"

\* The values of a failed mmap and a failed sem_open: MAP_FAILED is
\* (void *) -1 and differs from NULL; SEM_FAILED is ((sem_t *) 0) in the
\* semaphore.h of glibc, the NULL the handles are initialised with.
MAP_FAILED == "failed"
SEM_FAILED == "NULL"

\* SIGINT and SIGTERM, the signals main installs handle_signal for.
NumSignals == 2

\* The generator processes of a run: two of them, one alone, and one more
\* than the ring has slots.
Procs == {1, 2}
OneProc == {1}
ManyProcs == 1 .. (BUFFER_SIZE + 1)

\* argv of a generator, already split into edges u-v.
\* One edge 0-1: a colouring yields 0 or 1 conflicts.
GraphEdge == << <<0, 1>> >>
\* Eight parallel edges 0-1 followed by the loop 1-1: a colouring yields 1 or
\* 9 conflicts, the latter above MAX_REMOVED_EDGES.
GraphLoop ==
    << <<0, 1>>, <<0, 1>>, <<0, 1>>, <<0, 1>>,
       <<0, 1>>, <<0, 1>>, <<0, 1>>, <<0, 1>>, <<1, 1>> >>
\* Eight parallel edges 0-1 followed by one edge 1-2: a colouring yields 0, 1,
\* 8 or 9 conflicts, the last one above MAX_REMOVED_EDGES.
GraphNine ==
    << <<0, 1>>, <<0, 1>>, <<0, 1>>, <<0, 1>>,
       <<0, 1>>, <<0, 1>>, <<0, 1>>, <<0, 1>>, <<1, 2>> >>

\* One edge 0-1, two edges 1-2 and four edges 2-3: a colouring yields any
\* number of conflicts from 0 to 7, each with one set of edges.
GraphPath ==
    << <<0, 1>>, <<1, 2>>, <<1, 2>>,
       <<2, 3>>, <<2, 3>>, <<2, 3>>, <<2, 3>> >>

\* The test run with -n 5 and three generators whose valid candidates have
\* 3 then 1, 2 then 0, and 4 then 5 conflicts.
ScenarioLimit == 5
ScenarioCounts == << <<3, 1>>, <<2, 0>>, <<4, 5>> >>
ScenarioProcs == DOMAIN ScenarioCounts

\* The -n arguments the supervisor is started with.
\* The value strtol returns for the text after -n, as hi * 2^31 + lo with lo in
\* 0 .. INT_MAX, so that values of a 64-bit long beyond int can be written.
Long(h, l) == [given |-> TRUE, hi |-> h, lo |-> l]

\* A command line without -n.
NoLimit == [given |-> FALSE, hi |-> 0, lo |-> 0]

LimitArgs == {NoLimit, Long(0, 2)}

\* Command lines with limits up to and beyond INT_MAX: 0, 2, INT_MAX, 2^31,
\* 2^32 and 2^32 + 5.
WideArgs ==
    {NoLimit, Long(0, 0), Long(0, 2), Long(0, INT_MAX), Long(1, 0), Long(2, 0),
     Long(2, 5)}

\* The rand() calls of a generator are left free, or a test run fixes the
\* conflict counts of the valid candidates they yield, in order.
FreeRun == [free |-> TRUE, seq |-> << >>]
Scripted(counts) == [free |-> FALSE, seq |-> counts]

\* solution_t: edge_count and the first edge_count entries of edges.
EmptySol == [edge_count |-> 0, edges |-> << >>]

VARIABLES
    \* the namespace of named objects
    names,
    \* shm_t, the mapped region
    terminate, write_index, read_index, buffer,
    \* values of the three semaphore objects
    semv,
    \* supervisor: position, globals and locals of main
    opc, ctx, nested, ci, envSignals,
    shm_fd, shm_ptr, sem_free, sem_used, sem_mutex,
    limit, solutions_read, best_edge_count, osol, exitCode,
    \* generators: the edges of argv, position and locals of main
    graph_edges, gpc, gsol, gidx, gsem, gexit,
    \* generators: what a test run makes the random colourings yield
    script,
    \* history: the number of records written (the n-th advance of write_index
    \* publishes record n), the number of the record each slot holds, the
    \* numbers of the records in the order the supervisor copied them out, the
    \* sem_post(sem_free) calls made by cleanup, the resources cleanup used
    \* after releasing them
    nwritten, slotRec, readLog, compPosts, touched

shmVars == <<terminate, write_index, read_index, buffer>>
ownerGlobals == <<shm_fd, shm_ptr, sem_free, sem_used, sem_mutex>>
ownerLocals == <<limit, solutions_read, best_edge_count, osol>>
ownerVars ==
    <<opc, ctx, nested, ci, envSignals, ownerGlobals, ownerLocals, exitCode>>
genInput == <<graph_edges, script>>
genVars == <<genInput, gpc, gsol, gidx, gsem, gexit>>
histVars == <<nwritten, slotRec, readLog, compPosts, touched>>
vars == <<names, shmVars, semv, ownerVars, genVars, histVars>>

\* ------------------------------------------------------------- generator.c

\* generator.c 30, 42-43: num_edges and max_node_id of a parsed graph.
num_edges(g) == Len(g)
RECURSIVE max_node_id(_)
max_node_id(g) ==
    IF g = << >> THEN 0
    ELSE LET m == max_node_id(Tail(g))
             u == Head(g)[1]
             v == Head(g)[2]
             a == IF u > m THEN u ELSE m
         IN IF v > a THEN v ELSE a

\* The mutant of VerifyEdges that never discards a candidate.
RECURSIVE VerifyEdgesNoLimit(_, _, _, _)
VerifyEdgesNoLimit(g, colors, i, sol) ==
    IF i > num_edges(g) THEN [valid |-> TRUE, sol |-> sol]
    ELSE IF colors[g[i][1]] = colors[g[i][2]]
         THEN VerifyEdgesNoLimit(g, colors, i + 1,
                [edge_count |-> sol.edge_count + 1,
                 edges |-> Append(sol.edges, g[i])])
         ELSE VerifyEdgesNoLimit(g, colors, i + 1, sol)

\* generator.c 93-107: the edge loop over graph g, from edge i on, with the
\* solution built so far.
RECURSIVE VerifyEdges(_, _, _, _)
VerifyEdges(g, colors, i, sol) ==
    IF i > num_edges(g) THEN [valid |-> TRUE, sol |-> sol]
    ELSE IF colors[g[i][1]] = colors[g[i][2]]
         THEN IF sol.edge_count < MAX_REMOVED_EDGES
              THEN VerifyEdges(g, colors, i + 1,
                     [edge_count |-> sol.edge_count + 1,
                      edges |-> Append(sol.edges, g[i])])
              ELSE [valid |-> FALSE, sol |-> sol]
         ELSE VerifyEdges(g, colors, i + 1, sol)

\* generator.c 85-91: a random colouring of the nodes 0..max_node_id.
Colorings(g) == [0 .. max_node_id(g) -> 0 .. 2]

\* generator.c 89-107: the candidate of one colouring.
Candidate(g, colors) == VerifyEdges(g, colors, 1, EmptySol)

\* Generators holding a candidate that is on its way into the ring.
Publishing ==
    {"g_wait_free", "g_check_term", "g_wait_mutex", "g_read_idx",
     "g_write_buf", "g_write_idx", "g_post_mutex", "g_post_used"}
InFlight == Cardinality({q \in DOMAIN gpc : gpc[q] \in Publishing})

\* generator.c 56-67: shm_open without O_CREAT, then mmap.
GenOpenShm(p) ==
    /\ gpc[p] = "g_shm_open"
    /\ IF SHM_NAME \in names
       THEN gpc' = [gpc EXCEPT ![p] = "g_sem_free"] /\ gexit' = gexit
       ELSE gpc' = [gpc EXCEPT ![p] = "g_exited"]
            /\ gexit' = [gexit EXCEPT ![p] = 1]
    /\ UNCHANGED <<names, shmVars, semv, ownerVars, genInput, gsol, gidx,
                   gsem, histVars>>

\* sem_open(name, 0): the handle, or SEM_FAILED when the name does not exist.
GenSemOpen(p, at, name, field, next) ==
    /\ gpc[p] = at
    /\ gsem' = [gsem EXCEPT ![p][field] =
                  IF name \in names THEN "open" ELSE "failed"]
    /\ gpc' = [gpc EXCEPT ![p] = next]
    /\ UNCHANGED <<names, shmVars, semv, ownerVars, genInput, gsol, gidx,
                   gexit, histVars>>

\* generator.c 70-72
GenOpenFree(p) == GenSemOpen(p, "g_sem_free", SEM_FREE, "free", "g_sem_used")
GenOpenUsed(p) == GenSemOpen(p, "g_sem_used", SEM_USED, "used", "g_sem_mutex")
GenOpenMutex(p) == GenSemOpen(p, "g_sem_mutex", SEM_MUTEX, "mutex", "g_sem_check")

\* The mutant of GenCheckSems that goes on with a failed handle.
GenCheckSemsNoCheck(p) ==
    /\ gpc[p] = "g_sem_check"
    /\ gpc' = [gpc EXCEPT ![p] = "g_loop"]
    /\ UNCHANGED <<names, shmVars, semv, ownerVars, genInput, gsol, gidx,
                   gsem, gexit, histVars>>

\* generator.c 74-77
GenCheckSems(p) ==
    /\ gpc[p] = "g_sem_check"
    /\ IF \E f \in {"free", "used", "mutex"} : gsem[p][f] = "failed"
       THEN gpc' = [gpc EXCEPT ![p] = "g_exited"]
            /\ gexit' = [gexit EXCEPT ![p] = 1]
       ELSE gpc' = [gpc EXCEPT ![p] = "g_loop"] /\ gexit' = gexit
    /\ UNCHANGED <<names, shmVars, semv, ownerVars, genInput, gsol, gidx,
                   gsem, histVars>>

\* generator.c 82-109: the loop test, then one candidate. A discarded
\* candidate leads back to the loop test.
GenCandidate(p) ==
    /\ gpc[p] = "g_loop"
    /\ IF terminate # 0
       THEN gpc' = [gpc EXCEPT ![p] = "g_detach"] /\ gsol' = gsol
            /\ script' = script
       ELSE \E colors \in Colorings(graph_edges[p]) :
              LET c == Candidate(graph_edges[p], colors)
              IN IF c.valid
                 THEN /\ IF script[p].free
                         THEN /\ nwritten + InFlight < MaxRecords
                              /\ script' = script
                         ELSE /\ script[p].seq # << >>
                              /\ c.sol.edge_count = Head(script[p].seq)
                              /\ script' = [script EXCEPT ![p].seq = Tail(@)]
                      /\ gsol' = [gsol EXCEPT ![p] = c.sol]
                      /\ gpc' = [gpc EXCEPT ![p] = "g_wait_free"]
                 ELSE gpc' = gpc /\ gsol' = gsol /\ script' = script
    /\ UNCHANGED <<names, shmVars, semv, ownerVars, graph_edges, gidx, gsem,
                   gexit, histVars>>

\* The mutant of GenDiscard that takes a free slot for the rejected candidate.
GenDiscardTakesSlot(p) ==
    /\ gpc[p] = "g_loop"
    /\ terminate = 0
    /\ \E colors \in Colorings(graph_edges[p]) :
          ~Candidate(graph_edges[p], colors).valid
    /\ semv.free > 0
    /\ semv' = [semv EXCEPT !.free = @ - 1]
    /\ gpc' = [gpc EXCEPT ![p] = "g_continue"]
    /\ UNCHANGED <<names, shmVars, ownerVars, genInput, gsol, gidx,
                   gsem, gexit, histVars>>

\* generator.c 82-108: the loop test passes and the colouring drawn needs
\* more than MAX_REMOVED_EDGES removals; solution_valid is false at line 109.
\* (GenCandidate takes this branch and the continue in one stuttering step;
\* here the rejected candidate is a step of its own.)
GenDiscard(p) ==
    /\ gpc[p] = "g_loop"
    /\ terminate = 0
    /\ \E colors \in Colorings(graph_edges[p]) :
          ~Candidate(graph_edges[p], colors).valid
    /\ gpc' = [gpc EXCEPT ![p] = "g_continue"]
    /\ UNCHANGED <<names, shmVars, semv, ownerVars, genInput, gsol, gidx,
                   gsem, gexit, histVars>>

\* generator.c 109: continue, back to the loop test at line 82.
GenContinue(p) ==
    /\ gpc[p] = "g_continue"
    /\ gpc' = [gpc EXCEPT ![p] = "g_loop"]
    /\ UNCHANGED <<names, shmVars, semv, ownerVars, genInput, gsol, gidx,
                   gsem, gexit, histVars>>

\* The mutant of GenWaitFree that does not wait for a free slot.
GenWaitFreeNoWait(p) ==
    /\ gpc[p] = "g_wait_free"
    /\ gpc' = [gpc EXCEPT ![p] = "g_check_term"]
    /\ UNCHANGED <<names, shmVars, semv, ownerVars, genInput, gsol, gidx,
                   gsem, gexit, histVars>>

\* generator.c 112: sem_wait(sem_free) returns once it took a unit.
GenWaitFree(p) ==
    /\ gpc[p] = "g_wait_free"
    /\ semv.free > 0
    /\ semv' = [semv EXCEPT !.free = @ - 1]
    /\ gpc' = [gpc EXCEPT ![p] = "g_check_term"]
    /\ UNCHANGED <<names, shmVars, ownerVars, genInput, gsol, gidx,
                   gsem, gexit, histVars>>

\* generator.c 112: sem_wait(sem_free) returns -1 without a unit (interrupted)
\* and the loop is left.
GenWaitFreeIntr(p) ==
    /\ gpc[p] = "g_wait_free"
    /\ gpc' = [gpc EXCEPT ![p] = "g_detach"]
    /\ gsol' = [gsol EXCEPT ![p] = EmptySol]
    /\ UNCHANGED <<names, shmVars, semv, ownerVars, genInput, gidx, gsem,
                   gexit, histVars>>

\* The mutant of GenCheckTerminate that gives the unit back when it leaves.
GenCheckTerminateRepost(p) ==
    /\ gpc[p] = "g_check_term"
    /\ IF terminate # 0
       THEN /\ gpc' = [gpc EXCEPT ![p] = "g_detach"]
            /\ gsol' = [gsol EXCEPT ![p] = EmptySol]
            /\ semv' = [semv EXCEPT !.free = @ + 1]
       ELSE /\ gpc' = [gpc EXCEPT ![p] = "g_wait_mutex"]
            /\ gsol' = gsol
            /\ semv' = semv
    /\ UNCHANGED <<names, shmVars, ownerVars, genInput, gidx, gsem, gexit,
                   histVars>>

\* The mutant of GenCheckTerminate that does not test the flag.
GenCheckTerminateNoCheck(p) ==
    /\ gpc[p] = "g_check_term"
    /\ gpc' = [gpc EXCEPT ![p] = "g_wait_mutex"]
    /\ UNCHANGED <<names, shmVars, semv, ownerVars, genInput, gsol, gidx,
                   gsem, gexit, histVars>>

\* generator.c 113; sol lives in the loop body and ends with the break.
GenCheckTerminate(p) ==
    /\ gpc[p] = "g_check_term"
    /\ IF terminate # 0
       THEN gpc' = [gpc EXCEPT ![p] = "g_detach"]
            /\ gsol' = [gsol EXCEPT ![p] = EmptySol]
       ELSE gpc' = [gpc EXCEPT ![p] = "g_wait_mutex"] /\ gsol' = gsol
    /\ UNCHANGED <<names, shmVars, semv, ownerVars, genInput, gidx, gsem,
                   gexit, histVars>>

\* The mutant of GenWaitMutex that enters without taking the mutex.
GenWaitMutexNoLock(p) ==
    /\ gpc[p] = "g_wait_mutex"
    /\ gpc' = [gpc EXCEPT ![p] = "g_read_idx"]
    /\ UNCHANGED <<names, shmVars, semv, ownerVars, genInput, gsol, gidx,
                   gsem, gexit, histVars>>

\* generator.c 116: sem_wait(sem_mutex)
GenWaitMutex(p) ==
    /\ gpc[p] = "g_wait_mutex"
    /\ semv.mutex > 0
    /\ semv' = [semv EXCEPT !.mutex = @ - 1]
    /\ gpc' = [gpc EXCEPT ![p] = "g_read_idx"]
    /\ UNCHANGED <<names, shmVars, ownerVars, genInput, gsol, gidx,
                   gsem, gexit, histVars>>

\* generator.c 116: sem_wait(sem_mutex) returns -1 without the mutex
\* (interrupted); the return value is not looked at and the generator goes on.
GenWaitMutexIntr(p) ==
    /\ gpc[p] = "g_wait_mutex"
    /\ gpc' = [gpc EXCEPT ![p] = "g_read_idx"]
    /\ UNCHANGED <<names, shmVars, semv, ownerVars, genInput, gsol, gidx,
                   gsem, gexit, histVars>>

\* The mutant of GenReadIndex that waits inside the critical section until
\* the supervisor has taken every record.
GenReadIndexWaits(p) ==
    /\ gpc[p] = "g_read_idx"
    /\ semv.used = 0
    /\ gidx' = [gidx EXCEPT ![p] = write_index]
    /\ gpc' = [gpc EXCEPT ![p] = "g_write_buf"]
    /\ UNCHANGED <<names, shmVars, semv, ownerVars, genInput, gsol, gsem,
                   gexit, histVars>>

\* generator.c 118
GenReadIndex(p) ==
    /\ gpc[p] = "g_read_idx"
    /\ gidx' = [gidx EXCEPT ![p] = write_index]
    /\ gpc' = [gpc EXCEPT ![p] = "g_write_buf"]
    /\ UNCHANGED <<names, shmVars, semv, ownerVars, genInput, gsol, gsem,
                   gexit, histVars>>

\* generator.c 119
GenWriteSlot(p) ==
    /\ gpc[p] = "g_write_buf"
    /\ buffer' = [buffer EXCEPT ![gidx[p]] = gsol[p]]
    /\ slotRec' = [slotRec EXCEPT ![gidx[p]] = nwritten + 1]
    /\ gpc' = [gpc EXCEPT ![p] = "g_write_idx"]
    /\ UNCHANGED <<names, terminate, write_index, read_index, semv, ownerVars,
                   genInput, gsol, gidx, gsem, gexit, nwritten, readLog, compPosts, touched>>

\* The mutant of GenAdvance that leaves out the modulo.
GenAdvanceNoWrap(p) ==
    /\ gpc[p] = "g_write_idx"
    /\ write_index' = gidx[p] + 1
    /\ nwritten' = nwritten + 1
    /\ gpc' = [gpc EXCEPT ![p] = "g_post_mutex"]
    /\ UNCHANGED <<names, terminate, read_index, buffer, semv, ownerVars,
                   genInput, gsol, gidx, gsem, gexit, slotRec, readLog, compPosts, touched>>

\* generator.c 120
GenAdvance(p) ==
    /\ gpc[p] = "g_write_idx"
    /\ write_index' = (gidx[p] + 1) % BUFFER_SIZE
    /\ nwritten' = nwritten + 1
    /\ gpc' = [gpc EXCEPT ![p] = "g_post_mutex"]
    /\ UNCHANGED <<names, terminate, read_index, buffer, semv, ownerVars,
                   genInput, gsol, gidx, gsem, gexit, slotRec, readLog, compPosts, touched>>

\* The mutant of GenPostMutex that keeps the mutex.
GenPostMutexNoPost(p) ==
    /\ gpc[p] = "g_post_mutex"
    /\ gpc' = [gpc EXCEPT ![p] = "g_post_used"]
    /\ UNCHANGED <<names, shmVars, semv, ownerVars, genInput, gsol, gidx,
                   gsem, gexit, histVars>>

\* generator.c 122
GenPostMutex(p) ==
    /\ gpc[p] = "g_post_mutex"
    /\ semv' = [semv EXCEPT !.mutex = @ + 1]
    /\ gpc' = [gpc EXCEPT ![p] = "g_post_used"]
    /\ UNCHANGED <<names, shmVars, ownerVars, genInput, gsol, gidx,
                   gsem, gexit, histVars>>

\* generator.c 126, and the end of the loop body, where sol and idx end.
GenPostUsed(p) ==
    /\ gpc[p] = "g_post_used"
    /\ semv' = [semv EXCEPT !.used = @ + 1]
    /\ gpc' = [gpc EXCEPT ![p] = "g_loop"]
    /\ gsol' = [gsol EXCEPT ![p] = EmptySol]
    /\ gidx' = [gidx EXCEPT ![p] = 0]
    /\ UNCHANGED <<names, shmVars, ownerVars, genInput, gsem, gexit, histVars>>

\* The mutant of GenDetach that removes the names on the way out.
GenDetachUnlinks(p) ==
    /\ gpc[p] = "g_detach"
    /\ names' = {}
    /\ gsem' = [gsem EXCEPT ![p] = [free |-> "closed", used |-> "closed",
                                     mutex |-> "closed"]]
    /\ gpc' = [gpc EXCEPT ![p] = "g_exited"]
    /\ gexit' = [gexit EXCEPT ![p] = 0]
    /\ UNCHANGED <<shmVars, semv, ownerVars, genInput, gsol, gidx,
                   histVars>>

\* generator.c 129-136: detach only, nothing is unlinked.
GenDetach(p) ==
    /\ gpc[p] = "g_detach"
    /\ gsem' = [gsem EXCEPT ![p] = [free |-> "closed", used |-> "closed",
                                     mutex |-> "closed"]]
    /\ gpc' = [gpc EXCEPT ![p] = "g_exited"]
    /\ gexit' = [gexit EXCEPT ![p] = 0]
    /\ UNCHANGED <<names, shmVars, semv, ownerVars, genInput, gsol, gidx,
                   histVars>>

\* ------------------------------------------------------------ supervisor.c

\* supervisor.c 101: (int)val_n keeps the low 32 bits of the long, read as a
\* two's complement number.
ToInt(v) == IF v.hi % 2 = 0 THEN v.lo ELSE v.lo - INT_MAX - 1

\* supervisor.c 95-97: errno != 0 || val_n <= 0. Where long has 64 bits strtol
\* returns every value modelled here; where it has 32 bits it sets ERANGE for
\* a value beyond LONG_MAX = INT_MAX.
Rejected(v, lp64) ==
    \/ v.hi < 0
    \/ v.hi = 0 /\ v.lo = 0
    \/ ~lp64 /\ v.hi > 0

\* supervisor.c 86-116: option parsing with the command lines of args, on a
\* build with a 64-bit or with a 32-bit long.
OwnerParseFrom(args) ==
    /\ opc = "o_parse"
    /\ \E a \in args, lp64 \in BOOLEAN :
          IF ~a.given
          THEN limit' = INT_MAX /\ opc' = "o_shm_open" /\ exitCode' = exitCode
          ELSE IF Rejected(a, lp64)
               THEN limit' = limit /\ opc' = "o_exited" /\ exitCode' = 1
               ELSE /\ limit' = ToInt(a)
                    /\ opc' = "o_shm_open"
                    /\ exitCode' = exitCode
    /\ UNCHANGED <<names, shmVars, semv, ctx, nested, ci, envSignals, ownerGlobals,
                   solutions_read, best_edge_count, osol, genVars, histVars>>

\* supervisor.c 86-116, for a run without -n or with -n 2.
OwnerParse == OwnerParseFrom(LimitArgs)

\* supervisor.c 86-116, for limits up to and beyond INT_MAX.
OwnerParseWide == OwnerParseFrom(WideArgs)

\* supervisor.c 118-123: shm_open(SHM_NAME, O_CREAT | O_RDWR).
OwnerShmOpen ==
    /\ opc = "o_shm_open"
    /\ names' = names \cup {SHM_NAME}
    /\ shm_fd' = "open"
    /\ opc' = "o_ftruncate"
    /\ UNCHANGED <<shmVars, semv, ctx, nested, ci, envSignals, shm_ptr, sem_free, sem_used,
                   sem_mutex, ownerLocals, exitCode, genVars, histVars>>

\* supervisor.c 125-129
OwnerFtruncate ==
    /\ opc = "o_ftruncate"
    /\ opc' = "o_mmap"
    /\ UNCHANGED <<names, shmVars, semv, ctx, nested, ci, envSignals, ownerGlobals,
                   ownerLocals, exitCode, genVars, histVars>>

\* supervisor.c 131-136
OwnerMmap ==
    /\ opc = "o_mmap"
    /\ shm_ptr' = "open"
    /\ opc' = "o_init_shm"
    /\ UNCHANGED <<names, shmVars, semv, ctx, nested, ci, envSignals, shm_fd, sem_free,
                   sem_used, sem_mutex, ownerLocals, exitCode, genVars, histVars>>

\* supervisor.c 138-141
OwnerInitShm ==
    /\ opc = "o_init_shm"
    /\ terminate' = 0
    /\ write_index' = 0
    /\ read_index' = 0
    /\ opc' = "o_sem_free"
    /\ UNCHANGED <<names, buffer, semv, ctx, nested, ci, envSignals, ownerGlobals,
                   ownerLocals, exitCode, genVars, histVars>>

\* sem_open(name, O_CREAT, 0600, value): a new object gets the value, an
\* existing one is opened as it is.
SemCreate(name, field, value) ==
    /\ names' = names \cup {name}
    /\ semv' = IF name \in names THEN semv ELSE [semv EXCEPT ![field] = value]

\* supervisor.c 144
OwnerOpenFree ==
    /\ opc = "o_sem_free"
    /\ SemCreate(SEM_FREE, "free", BUFFER_SIZE)
    /\ sem_free' = "open"
    /\ opc' = "o_sem_used"
    /\ UNCHANGED <<shmVars, ctx, nested, ci, envSignals, shm_fd, shm_ptr, sem_used,
                   sem_mutex, ownerLocals, exitCode, genVars, histVars>>

\* supervisor.c 145
OwnerOpenUsed ==
    /\ opc = "o_sem_used"
    /\ SemCreate(SEM_USED, "used", 0)
    /\ sem_used' = "open"
    /\ opc' = "o_sem_mutex"
    /\ UNCHANGED <<shmVars, ctx, nested, ci, envSignals, shm_fd, shm_ptr, sem_free,
                   sem_mutex, ownerLocals, exitCode, genVars, histVars>>

\* supervisor.c 146
OwnerOpenMutex ==
    /\ opc = "o_sem_mutex"
    /\ SemCreate(SEM_MUTEX, "mutex", 1)
    /\ sem_mutex' = "open"
    /\ opc' = "o_sem_check"
    /\ UNCHANGED <<shmVars, ctx, nested, ci, envSignals, shm_fd, shm_ptr, sem_free,
                   sem_used, ownerLocals, exitCode, genVars, histVars>>

\* supervisor.c 148-164: the check of the three handles, then the locals of
\* the processing loop.
OwnerSemCheck ==
    /\ opc = "o_sem_check"
    /\ IF SEM_FAILED \in {sem_free, sem_used, sem_mutex}
       THEN opc' = "c_term" /\ ctx' = "fail"
            /\ UNCHANGED <<solutions_read, best_edge_count>>
       ELSE /\ opc' = "o_loop" /\ ctx' = ctx
            /\ solutions_read' = 0
            /\ best_edge_count' = MAX_REMOVED_EDGES + 1
    /\ UNCHANGED <<names, shmVars, semv, nested, ci, envSignals, ownerGlobals, limit,
                   osol, exitCode, genVars, histVars>>

\* supervisor.c 119-123: shm_open fails; main returns without cleanup.
OwnerShmOpenFail ==
    /\ opc = "o_shm_open"
    /\ opc' = "o_exited"
    /\ exitCode' = 1
    /\ UNCHANGED <<names, shmVars, semv, ctx, nested, ci, envSignals,
                   ownerGlobals, ownerLocals, genVars, histVars>>

\* supervisor.c 125-129: ftruncate fails.
OwnerFtruncateFail ==
    /\ opc = "o_ftruncate"
    /\ opc' = "c_term" /\ ctx' = "fail"
    /\ UNCHANGED <<names, shmVars, semv, nested, ci, envSignals, ownerGlobals,
                   ownerLocals, exitCode, genVars, histVars>>

\* supervisor.c 131-136: mmap fails and shm_ptr holds MAP_FAILED.
OwnerMmapFail ==
    /\ opc = "o_mmap"
    /\ shm_ptr' = MAP_FAILED
    /\ opc' = "c_term" /\ ctx' = "fail"
    /\ UNCHANGED <<names, shmVars, semv, nested, ci, envSignals, shm_fd,
                   sem_free, sem_used, sem_mutex, ownerLocals, exitCode,
                   genVars, histVars>>

\* supervisor.c 144: sem_open fails and sem_free holds SEM_FAILED.
OwnerOpenFreeFail ==
    /\ opc = "o_sem_free"
    /\ sem_free' = SEM_FAILED
    /\ opc' = "o_sem_used"
    /\ UNCHANGED <<names, shmVars, semv, ctx, nested, ci, envSignals, shm_fd,
                   shm_ptr, sem_used, sem_mutex, ownerLocals, exitCode,
                   genVars, histVars>>

\* supervisor.c 145
OwnerOpenUsedFail ==
    /\ opc = "o_sem_used"
    /\ sem_used' = SEM_FAILED
    /\ opc' = "o_sem_mutex"
    /\ UNCHANGED <<names, shmVars, semv, ctx, nested, ci, envSignals, shm_fd,
                   shm_ptr, sem_free, sem_mutex, ownerLocals, exitCode,
                   genVars, histVars>>

\* supervisor.c 146
OwnerOpenMutexFail ==
    /\ opc = "o_sem_mutex"
    /\ sem_mutex' = SEM_FAILED
    /\ opc' = "o_sem_check"
    /\ UNCHANGED <<names, shmVars, semv, ctx, nested, ci, envSignals, shm_fd,
                   shm_ptr, sem_free, sem_used, ownerLocals, exitCode,
                   genVars, histVars>>

\* The mutant of OwnerLoop that does not look at the limit.
OwnerLoopNoLimit ==
    /\ opc = "o_loop"
    /\ IF terminate = 0
       THEN opc' = "o_wait_used" /\ ctx' = ctx
       ELSE opc' = "c_term" /\ ctx' = "ok"
    /\ UNCHANGED <<names, shmVars, semv, nested, ci, envSignals, ownerGlobals,
                   ownerLocals, exitCode, genVars, histVars>>

\* supervisor.c 167, and 196-200 when the loop ends.
OwnerLoop ==
    /\ opc = "o_loop"
    /\ IF terminate = 0 /\ solutions_read < limit
       THEN opc' = "o_wait_used" /\ ctx' = ctx
       ELSE opc' = "c_term" /\ ctx' = "ok"
    /\ UNCHANGED <<names, shmVars, semv, nested, ci, envSignals, ownerGlobals,
                   ownerLocals, exitCode, genVars, histVars>>

\* supervisor.c 170: sem_wait(sem_used) returns once it took a unit.
OwnerWaitUsed ==
    /\ opc = "o_wait_used"
    /\ semv.used > 0
    /\ semv' = [semv EXCEPT !.used = @ - 1]
    /\ opc' = "o_read"
    /\ UNCHANGED <<names, shmVars, ctx, nested, ci, envSignals, ownerGlobals, ownerLocals,
                   exitCode, genVars, histVars>>

\* The mutant of OwnerRead that does not advance read_index.
OwnerReadNoAdvance ==
    /\ opc = "o_read"
    /\ osol' = buffer[read_index]
    /\ readLog' = Append(readLog, slotRec[read_index])
    /\ opc' = "o_post_free"
    /\ UNCHANGED <<names, shmVars, semv, ctx, nested, ci, envSignals, ownerGlobals, limit,
                   solutions_read, best_edge_count, exitCode, genVars, nwritten,
                   slotRec, compPosts, touched>>

\* The mutant of OwnerRead that empties the slot it has read.
OwnerReadClears ==
    /\ opc = "o_read"
    /\ osol' = buffer[read_index]
    /\ buffer' = [buffer EXCEPT ![read_index] = EmptySol]
    /\ read_index' = (read_index + 1) % BUFFER_SIZE
    /\ readLog' = Append(readLog, slotRec[read_index])
    /\ opc' = "o_post_free"
    /\ UNCHANGED <<names, terminate, write_index, semv, ctx, nested,
                   ci, envSignals, ownerGlobals, limit, solutions_read, best_edge_count,
                   exitCode, genVars, nwritten, slotRec, compPosts, touched>>

\* supervisor.c 175-178
OwnerRead ==
    /\ opc = "o_read"
    /\ osol' = buffer[read_index]
    /\ read_index' = (read_index + 1) % BUFFER_SIZE
    /\ readLog' = Append(readLog, slotRec[read_index])
    /\ opc' = "o_post_free"
    /\ UNCHANGED <<names, terminate, write_index, buffer, semv, ctx, nested,
                   ci, envSignals, ownerGlobals, limit, solutions_read, best_edge_count,
                   exitCode, genVars, nwritten, slotRec, compPosts, touched>>

\* The mutant of Better that keeps the count of the last record.
BetterLast(sol, best) == sol.edge_count

\* The best count after comparing with the record just read (185-186).
Better(sol, best) == IF sol.edge_count < best THEN sol.edge_count ELSE best

\* The mutant of Solved that never leaves the loop.
SolvedNever(sol, best) == FALSE

\* What follows the comparison of 184-193: TRUE when the loop is left.
Solved(sol, best) == sol.edge_count < best /\ sol.edge_count = 0

\* The mutant of OwnerPostFree that does not give the slot back.
OwnerPostFreeNoPost ==
    /\ opc = "o_post_free"
    /\ solutions_read' = solutions_read + 1
    /\ best_edge_count' = Better(osol, best_edge_count)
    /\ osol' = EmptySol
    /\ IF Solved(osol, best_edge_count)
       THEN opc' = "c_term" /\ ctx' = "ok"
       ELSE opc' = "o_loop" /\ ctx' = ctx
    /\ UNCHANGED <<names, shmVars, semv, nested, ci, envSignals, ownerGlobals, limit,
                   exitCode, genVars, histVars>>

\* supervisor.c 180-193, and 196-200 after the break; sol lives in the loop
\* body and ends with it.
OwnerPostFree ==
    /\ opc = "o_post_free"
    /\ semv' = [semv EXCEPT !.free = @ + 1]
    /\ solutions_read' = solutions_read + 1
    /\ best_edge_count' = Better(osol, best_edge_count)
    /\ osol' = EmptySol
    /\ IF Solved(osol, best_edge_count)
       THEN opc' = "c_term" /\ ctx' = "ok"
       ELSE opc' = "o_loop" /\ ctx' = ctx
    /\ UNCHANGED <<names, shmVars, nested, ci, envSignals, ownerGlobals, limit, exitCode,
                   genVars, histVars>>

\* ---------------------------------------------- supervisor.c: cleanup()

\* A global handle is passed to cleanup as set when it is not NULL (-1 for
\* shm_fd); cleanup never resets one, so a released handle stays set.
IsSet(h) == h # "NULL"

\* What follows the use of a handle: on a released resource the call returns
\* or the process is killed; a store through MAP_FAILED kills the process.
AfterUse(h, next) ==
    IF h = "closed" THEN {next, "o_crashed"}
    ELSE IF h = MAP_FAILED THEN {"o_crashed"}
    ELSE {next}

\* The mutant of CleanupTerminate that does not set the flag.
CleanupTerminateNoFlag ==
    /\ opc = "c_term"
    /\ terminate' = terminate
    /\ touched' = IF shm_ptr \in {"closed", MAP_FAILED}
                  THEN touched \cup {SHM_NAME} ELSE touched
    /\ opc' \in AfterUse(shm_ptr, "c_post")
    /\ ci' = 0
    /\ UNCHANGED <<names, write_index, read_index, buffer, semv, ctx, nested, envSignals,
                   ownerGlobals, ownerLocals, exitCode, genVars, nwritten, slotRec,
                   readLog, compPosts>>

\* supervisor.c 33-36, and the start of the loop of 40.
CleanupTerminate ==
    /\ opc = "c_term"
    /\ terminate' = IF shm_ptr = "open" THEN 1 ELSE terminate
    /\ touched' = IF shm_ptr \in {"closed", MAP_FAILED}
                  THEN touched \cup {SHM_NAME} ELSE touched
    /\ opc' \in AfterUse(shm_ptr, "c_post")
    /\ ci' = 0
    /\ UNCHANGED <<names, write_index, read_index, buffer, semv, ctx, nested, envSignals,
                   ownerGlobals, ownerLocals, exitCode, genVars, nwritten, slotRec,
                   readLog, compPosts>>

\* supervisor.c 39-42: one sem_post(sem_free) of the loop. compPosts counts
\* the posts that reach the semaphore.
CleanupPost ==
    /\ opc = "c_post"
    /\ IsSet(sem_free)
    /\ ci < BUFFER_SIZE
    /\ ci' = ci + 1
    /\ IF sem_free = "open"
       THEN /\ semv' = [semv EXCEPT !.free = @ + 1]
            /\ compPosts' = compPosts + 1
            /\ touched' = touched
       ELSE /\ touched' = touched \cup {SEM_FREE}
            /\ UNCHANGED <<semv, compPosts>>
    /\ opc' \in AfterUse(sem_free, "c_post")
    /\ UNCHANGED <<names, shmVars, ctx, nested, envSignals, ownerGlobals, ownerLocals,
                   exitCode, genVars, nwritten, slotRec, readLog>>

\* sem_close(h); sem_unlink(name) under if (h).
CloseUnlink(h, name) ==
    /\ names' = IF IsSet(h) THEN names \ {name} ELSE names
    /\ touched' = IF h = "closed" THEN touched \cup {name} ELSE touched

\* supervisor.c 39, 43-45: the end of the loop, sem_close and sem_unlink.
CleanupFree ==
    /\ opc = "c_post"
    /\ ~IsSet(sem_free) \/ ci >= BUFFER_SIZE
    /\ CloseUnlink(sem_free, SEM_FREE)
    /\ sem_free' = IF IsSet(sem_free) THEN "closed" ELSE sem_free
    /\ opc' \in AfterUse(sem_free, "c_used")
    /\ UNCHANGED <<shmVars, semv, ctx, nested, ci, envSignals, shm_fd, shm_ptr, sem_used,
                   sem_mutex, ownerLocals, exitCode, genVars, nwritten, slotRec,
                   readLog, compPosts>>

\* supervisor.c 47-50
CleanupUsed ==
    /\ opc = "c_used"
    /\ CloseUnlink(sem_used, SEM_USED)
    /\ sem_used' = IF IsSet(sem_used) THEN "closed" ELSE sem_used
    /\ opc' \in AfterUse(sem_used, "c_mutex")
    /\ UNCHANGED <<shmVars, semv, ctx, nested, ci, envSignals, shm_fd, shm_ptr, sem_free,
                   sem_mutex, ownerLocals, exitCode, genVars, nwritten, slotRec,
                   readLog, compPosts>>

\* supervisor.c 52-55
CleanupMutex ==
    /\ opc = "c_mutex"
    /\ CloseUnlink(sem_mutex, SEM_MUTEX)
    /\ sem_mutex' = IF IsSet(sem_mutex) THEN "closed" ELSE sem_mutex
    /\ opc' \in AfterUse(sem_mutex, "c_munmap")
    /\ UNCHANGED <<shmVars, semv, ctx, nested, ci, envSignals, shm_fd, shm_ptr, sem_free,
                   sem_used, ownerLocals, exitCode, genVars, nwritten, slotRec,
                   readLog, compPosts>>

\* The mutant of CleanupMunmap that zeroes the region before unmapping it.
CleanupMunmapClears ==
    /\ opc = "c_munmap"
    /\ terminate' = IF shm_ptr = "open" THEN 0 ELSE terminate
    /\ shm_ptr' = IF IsSet(shm_ptr) THEN "closed" ELSE shm_ptr
    /\ opc' = "c_shm"
    /\ UNCHANGED <<names, write_index, read_index, buffer, semv, ctx, nested, ci,
                   envSignals, shm_fd, sem_free, sem_used, sem_mutex, ownerLocals,
                   exitCode, genVars, histVars>>

\* supervisor.c 57-59: munmap; a range that is no longer mapped is left as is.
CleanupMunmap ==
    /\ opc = "c_munmap"
    /\ shm_ptr' = IF IsSet(shm_ptr) THEN "closed" ELSE shm_ptr
    /\ opc' = "c_shm"
    /\ UNCHANGED <<names, shmVars, semv, ctx, nested, ci, envSignals, shm_fd, sem_free,
                   sem_used, sem_mutex, ownerLocals, exitCode, genVars, histVars>>

\* The mutant of CleanupShm that closes the descriptor and leaves the name.
CleanupShmNoUnlink ==
    /\ opc = "c_shm"
    /\ shm_fd' = IF IsSet(shm_fd) THEN "closed" ELSE shm_fd
    /\ opc' = "o_exited"
    /\ exitCode' = IF ctx = "fail" THEN 1 ELSE 0
    /\ UNCHANGED <<names, shmVars, semv, ctx, nested, ci, envSignals, shm_ptr,
                   sem_free, sem_used, sem_mutex, ownerLocals, genVars, histVars>>

\* The mutant of CleanupShm that reports success to every caller.
CleanupShmExitZero ==
    /\ opc = "c_shm"
    /\ names' = IF IsSet(shm_fd) THEN names \ {SHM_NAME} ELSE names
    /\ shm_fd' = IF IsSet(shm_fd) THEN "closed" ELSE shm_fd
    /\ opc' = "o_exited"
    /\ exitCode' = 0
    /\ UNCHANGED <<shmVars, semv, ctx, nested, ci, envSignals, shm_ptr,
                   sem_free, sem_used, sem_mutex, ownerLocals, genVars, histVars>>

\* supervisor.c 61-65, then the caller: exit(EXIT_SUCCESS) of handle_signal
\* (70), return EXIT_SUCCESS (201) or return EXIT_FAILURE (128, 135, 151).
CleanupShm ==
    /\ opc = "c_shm"
    /\ names' = IF IsSet(shm_fd) THEN names \ {SHM_NAME} ELSE names
    /\ shm_fd' = IF IsSet(shm_fd) THEN "closed" ELSE shm_fd
    /\ opc' = "o_exited"
    /\ exitCode' = IF ctx = "fail" THEN 1 ELSE 0
    /\ UNCHANGED <<shmVars, semv, ctx, nested, ci, envSignals, shm_ptr, sem_free, sem_used,
                   sem_mutex, ownerLocals, genVars, histVars>>

\* supervisor.c 67-71, 78-84: SIGINT or SIGTERM is delivered and
\* handle_signal calls cleanup. sa_mask is empty, so only the signal being
\* handled is blocked: nested counts the handlers entered, one per signal.
\* handle_signal never returns to what it interrupted, so the locals of main
\* are out of reach from here on and are dropped.
Signal ==
    /\ opc \notin {"o_exited", "o_crashed"}
    /\ nested < envSignals
    /\ nested' = nested + 1
    /\ ctx' = "handler"
    /\ opc' = "c_term"
    /\ limit' = INT_MAX /\ solutions_read' = 0
    /\ best_edge_count' = MAX_REMOVED_EDGES + 1 /\ osol' = EmptySol
    /\ UNCHANGED <<names, shmVars, semv, ci, envSignals, ownerGlobals, exitCode,
                   genVars, histVars>>

\* ------------------------------------------------------------ specification

InitShared ==
    /\ names = {}
    /\ terminate = 0 /\ write_index = 0 /\ read_index = 0
    /\ buffer = [i \in 0 .. BUFFER_SIZE - 1 |-> EmptySol]
    /\ semv = [free |-> 0, used |-> 0, mutex |-> 0]

\* sigs: how many of the two signals are sent to the supervisor in the run.
InitOwner(sigs) ==
    /\ opc = "o_parse" /\ ctx = "main" /\ nested = 0 /\ ci = 0
    /\ envSignals = sigs
    /\ shm_fd = "NULL" /\ shm_ptr = "NULL"
    /\ sem_free = "NULL" /\ sem_used = "NULL" /\ sem_mutex = "NULL"
    /\ limit = INT_MAX /\ solutions_read = 0
    /\ best_edge_count = MAX_REMOVED_EDGES + 1
    /\ osol = EmptySol /\ exitCode = -1

InitGens(P, g) ==
    /\ graph_edges = [p \in P |-> g]
    /\ script = [p \in P |-> FreeRun]
    /\ gpc = [p \in P |-> "g_shm_open"]
    /\ gsol = [p \in P |-> EmptySol]
    /\ gidx = [p \in P |-> 0]
    /\ gsem = [p \in P |-> [free |-> "NULL", used |-> "NULL", mutex |-> "NULL"]]
    /\ gexit = [p \in P |-> -1]

InitHist ==
    /\ nwritten = 0 /\ slotRec = [i \in 0 .. BUFFER_SIZE - 1 |-> 0]
    /\ readLog = << >> /\ compPosts = 0 /\ touched = {}

\* Two generators on GraphLoop, one signal.
Init ==
    InitShared /\ InitOwner(1) /\ InitGens(Procs, GraphLoop) /\ InitHist

\* Two generators on GraphLoop, no signal.
InitQuiet ==
    InitShared /\ InitOwner(0) /\ InitGens(Procs, GraphLoop) /\ InitHist

\* Two generators on GraphNine, no signal.
InitRich ==
    InitShared /\ InitOwner(0) /\ InitGens(Procs, GraphNine) /\ InitHist

\* One generator on GraphNine, both signals.
InitSignals ==
    InitShared /\ InitOwner(NumSignals) /\ InitGens(OneProc, GraphNine) /\ InitHist

\* One generator on GraphNine, one signal.
InitExit ==
    InitShared /\ InitOwner(1) /\ InitGens(OneProc, GraphNine) /\ InitHist

\* The case of shutdown with more generators than slots: the supervisor is
\* serving and has read nothing yet, the ring is full, and every generator of
\* ManyProcs is blocked in sem_wait(sem_free) with a candidate; one signal.
InitMany ==
    LET rec == Candidate(GraphLoop, [n \in 0 .. 1 |-> n]).sol
        allOpen == [free |-> "open", used |-> "open", mutex |-> "open"]
    IN /\ names = {SHM_NAME, SEM_FREE, SEM_USED, SEM_MUTEX}
       /\ terminate = 0 /\ write_index = 0 /\ read_index = 0
       /\ buffer = [i \in 0 .. BUFFER_SIZE - 1 |-> rec]
       /\ semv = [free |-> 0, used |-> BUFFER_SIZE, mutex |-> 1]
       /\ opc = "o_loop" /\ ctx = "main" /\ nested = 0 /\ ci = 0
       /\ envSignals = 1
       /\ shm_fd = "open" /\ shm_ptr = "open"
       /\ sem_free = "open" /\ sem_used = "open" /\ sem_mutex = "open"
       /\ limit = INT_MAX /\ solutions_read = 0
       /\ best_edge_count = MAX_REMOVED_EDGES + 1
       /\ osol = EmptySol /\ exitCode = -1
       /\ graph_edges = [p \in ManyProcs |-> GraphLoop]
       /\ script = [p \in ManyProcs |-> FreeRun]
       /\ gpc = [p \in ManyProcs |-> "g_wait_free"]
       /\ gsol = [p \in ManyProcs |-> rec]
       /\ gidx = [p \in ManyProcs |-> 0]
       /\ gsem = [p \in ManyProcs |-> allOpen]
       /\ gexit = [p \in ManyProcs |-> -1]
       /\ nwritten = BUFFER_SIZE
       /\ slotRec = [i \in 0 .. BUFFER_SIZE - 1 |-> i + 1]
       /\ readLog = << >> /\ compPosts = 0 /\ touched = {}

\* The supervisor alone in an empty namespace, one signal.
InitAlone ==
    InitShared /\ InitOwner(1) /\ InitGens({}, GraphEdge) /\ InitHist

\* What an earlier supervisor run left behind when it did not get through
\* cleanup, with one record published and not yet read: killed while serving
\* (all four names exist), or killed inside cleanup after the unlink of
\* sem_free (terminate is set).
StaleRecord == Candidate(GraphLoop, [n \in 0 .. 1 |-> n]).sol
InitStaleShared ==
    /\ write_index = 1 /\ read_index = 0
    /\ buffer = [i \in 0 .. BUFFER_SIZE - 1 |->
                   IF i = 0 THEN StaleRecord ELSE EmptySol]
    /\ \/ /\ names = {SHM_NAME, SEM_FREE, SEM_USED, SEM_MUTEX}
          /\ terminate = 0
          /\ semv = [free |-> BUFFER_SIZE - 1, used |-> 1, mutex |-> 1]
       \/ /\ names = {SHM_NAME, SEM_USED, SEM_MUTEX}
          /\ terminate = 1
          /\ semv = [free |-> 0, used |-> 1, mutex |-> 1]

\* A supervisor started alone in such a namespace, one signal.
InitStale ==
    InitStaleShared /\ InitOwner(1) /\ InitGens({}, GraphEdge) /\ InitHist

\* The test run at the point where the supervisor, started with -n 5, has
\* completed its initialisation and the three generators have attached.
InitScenario ==
    /\ names = {SHM_NAME, SEM_FREE, SEM_USED, SEM_MUTEX}
    /\ terminate = 0 /\ write_index = 0 /\ read_index = 0
    /\ buffer = [i \in 0 .. BUFFER_SIZE - 1 |-> EmptySol]
    /\ semv = [free |-> BUFFER_SIZE, used |-> 0, mutex |-> 1]
    /\ opc = "o_loop" /\ ctx = "main" /\ nested = 0 /\ ci = 0
    /\ envSignals = 0
    /\ shm_fd = "open" /\ shm_ptr = "open"
    /\ sem_free = "open" /\ sem_used = "open" /\ sem_mutex = "open"
    /\ limit = ScenarioLimit /\ solutions_read = 0
    /\ best_edge_count = MAX_REMOVED_EDGES + 1
    /\ osol = EmptySol /\ exitCode = -1
    /\ graph_edges = [p \in ScenarioProcs |-> GraphPath]
    /\ script = [p \in ScenarioProcs |-> Scripted(ScenarioCounts[p])]
    /\ gpc = [p \in ScenarioProcs |-> "g_loop"]
    /\ gsol = [p \in ScenarioProcs |-> EmptySol]
    /\ gidx = [p \in ScenarioProcs |-> 0]
    /\ gsem = [p \in ScenarioProcs |->
                 [free |-> "open", used |-> "open", mutex |-> "open"]]
    /\ gexit = [p \in ScenarioProcs |-> -1]
    /\ InitHist

GenNext(p) ==
    \/ GenOpenShm(p)
    \/ GenOpenFree(p)
    \/ GenOpenUsed(p)
    \/ GenOpenMutex(p)
    \/ GenCheckSems(p)
    \/ GenCandidate(p)
    \/ GenWaitFree(p)
    \/ GenCheckTerminate(p)
    \/ GenWaitMutex(p)
    \/ GenReadIndex(p)
    \/ GenWriteSlot(p)
    \/ GenAdvance(p)
    \/ GenPostMutex(p)
    \/ GenPostUsed(p)
    \/ GenDetach(p)

OwnerNext ==
    \/ OwnerParse
    \/ OwnerShmOpen
    \/ OwnerFtruncate
    \/ OwnerMmap
    \/ OwnerInitShm
    \/ OwnerOpenFree
    \/ OwnerOpenUsed
    \/ OwnerOpenMutex
    \/ OwnerSemCheck
    \/ OwnerLoop
    \/ OwnerWaitUsed
    \/ OwnerRead
    \/ OwnerPostFree

CleanupNext ==
    \/ CleanupTerminate
    \/ CleanupPost
    \/ CleanupFree
    \/ CleanupUsed
    \/ CleanupMutex
    \/ CleanupMunmap
    \/ CleanupShm

Next ==
    \/ OwnerNext
    \/ CleanupNext
    \/ Signal
    \/ \E p \in DOMAIN gpc : GenNext(p)

\* Without signal delivery.
NextQuiet ==
    \/ OwnerNext
    \/ CleanupNext
    \/ \E p \in DOMAIN gpc : GenNext(p)

\* Without signals to the supervisor, and with waits of the generators that
\* return interrupted.
NextIntr ==
    \/ NextQuiet
    \/ \E p \in DOMAIN gpc : GenWaitFreeIntr(p) \/ GenWaitMutexIntr(p)

\* The steps of an initialised supervisor and of attached generators.
NextServing ==
    \/ OwnerLoop
    \/ OwnerWaitUsed
    \/ OwnerRead
    \/ OwnerPostFree
    \/ CleanupNext
    \/ Signal
    \/ \E p \in DOMAIN gpc :
         \/ GenCandidate(p)
         \/ GenWaitFree(p)
         \/ GenCheckTerminate(p)
         \/ GenWaitMutex(p)
         \/ GenReadIndex(p)
         \/ GenWriteSlot(p)
         \/ GenAdvance(p)
         \/ GenPostMutex(p)
         \/ GenPostUsed(p)
         \/ GenDetach(p)

\* The start of the supervisor up to the processing loop, with the failures
\* of its system calls, and its cleanup.
NextStartup ==
    \/ OwnerParse
    \/ OwnerShmOpen
    \/ OwnerShmOpenFail
    \/ OwnerFtruncate
    \/ OwnerFtruncateFail
    \/ OwnerMmap
    \/ OwnerMmapFail
    \/ OwnerInitShm
    \/ OwnerOpenFree
    \/ OwnerOpenFreeFail
    \/ OwnerOpenUsed
    \/ OwnerOpenUsedFail
    \/ OwnerOpenMutex
    \/ OwnerOpenMutexFail
    \/ OwnerSemCheck
    \/ CleanupNext
    \/ Signal

\* The supervisor alone, started with any of the limits of WideArgs.
NextParse ==
    \/ OwnerParseWide
    \/ OwnerShmOpen
    \/ OwnerFtruncate
    \/ OwnerMmap
    \/ OwnerInitShm
    \/ OwnerOpenFree
    \/ OwnerOpenUsed
    \/ OwnerOpenMutex
    \/ OwnerSemCheck
    \/ OwnerLoop
    \/ CleanupNext
    \/ Signal

\* All steps, with the failures of the supervisor's system calls.
NextExit ==
    \/ Next
    \/ OwnerShmOpenFail
    \/ OwnerFtruncateFail
    \/ OwnerMmapFail
    \/ OwnerOpenFreeFail
    \/ OwnerOpenUsedFail
    \/ OwnerOpenMutexFail

\* The steps without signals, with the rejection of a candidate as a step.
NextDiscard ==
    \/ \E p \in DOMAIN gpc : GenNext(p)
    \/ OwnerNext
    \/ CleanupNext
    \/ \E p \in DOMAIN gpc : GenDiscard(p)
    \/ \E p \in DOMAIN gpc : GenContinue(p)

\* The steps of an initialised supervisor and of attached generators, without
\* signals.
NextScenario ==
    \/ OwnerLoop
    \/ OwnerWaitUsed
    \/ OwnerRead
    \/ OwnerPostFree
    \/ CleanupNext
    \/ \E p \in DOMAIN gpc :
         \/ GenCandidate(p)
         \/ GenWaitFree(p)
         \/ GenCheckTerminate(p)
         \/ GenWaitMutex(p)
         \/ GenReadIndex(p)
         \/ GenWriteSlot(p)
         \/ GenAdvance(p)
         \/ GenPostMutex(p)
         \/ GenPostUsed(p)
         \/ GenDetach(p)

Spec == Init /\ [][Next]_vars
\* The steps of a generator other than drawing a colouring at the loop head.
GenProgress(p) == gpc[p] # "g_loop" /\ GenNext(p)

\* Every process that can take a step is scheduled eventually; the delivery
\* of a signal is not forced, and no generator is required to come up with a
\* further candidate.
Fairness ==
    /\ \A p \in Procs : WF_vars(GenProgress(p))
    /\ WF_vars(OwnerNext)
    /\ WF_vars(CleanupNext)

SpecFair == Init /\ [][Next]_vars /\ Fairness
SpecScenario == InitScenario /\ [][NextScenario]_vars
SpecIntr == InitQuiet /\ [][NextIntr]_vars
SpecDiscard == InitQuiet /\ [][NextDiscard]_vars
SpecExit == InitExit /\ [][NextExit]_vars
SpecParse == InitAlone /\ [][NextParse]_vars
SpecFail == InitAlone /\ [][NextStartup]_vars
SpecStale == InitStale /\ [][NextStartup]_vars
SpecMany == InitMany /\ [][NextServing]_vars
SpecRich == InitRich /\ [][NextQuiet]_vars
SpecSignals == InitSignals /\ [][Next]_vars

\* ------------------------------------------------------------------ claims

\* Generators between acquiring and releasing write_mutex (116-122).
InCS(p) == gpc[p] \in {"g_read_idx", "g_write_buf", "g_write_idx", "g_post_mutex"}

\* Generators between their sem_wait(sem_free) and their sem_post(sem_used).
MidWrite(p) ==
    gpc[p] \in {"g_check_term", "g_wait_mutex", "g_read_idx", "g_write_buf",
                "g_write_idx", "g_post_mutex", "g_post_used"}

\* The supervisor between its sem_wait(sem_used) and its sem_post(sem_free).
MidRead == opc \in {"o_read", "o_post_free"}

Quiescent == ~MidRead /\ \A p \in DOMAIN gpc : ~MidWrite(p)

\* The supervisor has created free_slots and used_slots.
SemsCreated == IsSet(sem_free) /\ IsSet(sem_used)

\* The supervisor has entered cleanup, from main or from handle_signal.
ShutdownBegun ==
    opc \in {"c_term", "c_post", "c_used", "c_mutex", "c_munmap", "c_shm",
             "o_exited", "o_crashed"}

\* Records written and not yet copied out by the supervisor.
Unread == nwritten - Len(readLog)

\* C1: at most one generator is between acquiring and releasing write_mutex.
C1_MutualExclusion == Cardinality({p \in DOMAIN gpc : InCS(p)}) <= 1

\* One generator holds write_mutex while another is blocked on it.
C1_Witness ==
    \E p, q \in DOMAIN gpc : InCS(p) /\ gpc[q] = "g_wait_mutex" /\ semv.mutex = 0

\* C2 as stated: in every state with no generator between its free_slots wait
\* and its used_slots post and the supervisor not between its used_slots wait
\* and its free_slots post, free_slots + used_slots = CAPACITY.
C2_Original ==
    (SemsCreated /\ Quiescent) => semv.free + semv.used = BUFFER_SIZE

\* C2 amended: the same, for the states before the supervisor enters cleanup.
C2_CapacityConservation ==
    (SemsCreated /\ Quiescent /\ ~ShutdownBegun)
        => semv.free + semv.used = BUFFER_SIZE

\* A quiescent state before shutdown with a full ring, after a read.
C2_Witness ==
    /\ SemsCreated /\ Quiescent /\ ~ShutdownBegun
    /\ semv.used = BUFFER_SIZE /\ Len(readLog) >= 1

\* C3: the records the supervisor has read are a prefix of the records in the
\* order they were written: the k-th read returns record k, and no more
\* records are read than were written.
C3_Fifo ==
    /\ Len(readLog) <= nwritten
    /\ \A k \in 1 .. Len(readLog) : readLog[k] = k

\* The supervisor has read a record from a slot that was written twice.
C3_Witness == Len(readLog) > BUFFER_SIZE

\* C4 as stated: every generator blocked on free_slots at shutdown is woken
\* and leaves; hence, once the supervisor has left, no generator is still
\* blocked in sem_wait(sem_free) on a semaphore without units, which nobody
\* is left to post.
C4_NoProducerStranded ==
    ~(/\ opc = "o_exited"
      /\ \E p \in DOMAIN gpc : gpc[p] = "g_wait_free" /\ semv.free = 0)

\* C5: every record the supervisor copies out of the ring has
\* 0 <= edge_count <= MAX_REMOVED_EDGES.
C5_SolutionBound ==
    opc = "o_post_free" =>
        /\ osol.edge_count \in 0 .. MAX_REMOVED_EDGES
        /\ Len(osol.edges) = osol.edge_count

\* The supervisor has copied out a record with MAX_REMOVED_EDGES edges.
C5_Witness == opc = "o_post_free" /\ osol.edge_count = MAX_REMOVED_EDGES

\* C6: both cursors stay in 0..CAPACITY-1, a write advances write_index by one
\* modulo CAPACITY, a read advances read_index by one modulo CAPACITY, and no
\* other step moves a cursor.
C6_CursorBound ==
    /\ [](write_index \in 0 .. BUFFER_SIZE - 1 /\ read_index \in 0 .. BUFFER_SIZE - 1)
    /\ [][/\ write_index' = IF nwritten' = nwritten + 1
                            THEN (write_index + 1) % BUFFER_SIZE ELSE write_index
          /\ read_index' = IF Len(readLog') = Len(readLog) + 1
                           THEN (read_index + 1) % BUFFER_SIZE ELSE read_index]_vars

\* Both cursors have wrapped around to slot 0.
C6_Witness ==
    /\ nwritten = BUFFER_SIZE /\ write_index = 0
    /\ Len(readLog) = BUFFER_SIZE /\ read_index = 0

\* C7: once terminate is 1 it stays 1.
C7_MonotonicTermination == [][terminate = 1 => terminate' = 1]_vars

\* A generator has left after observing terminate = 1, and cleanup has been
\* entered a second time.
C7_Witness ==
    /\ terminate = 1 /\ nested = 1 /\ shm_ptr = "closed"
    /\ \E p \in DOMAIN gpc : gexit[p] = 0

\* No generator holds write_mutex.
OutsideCS == \A p \in DOMAIN gpc : ~InCS(p)

\* C8 as stated: outside a critical section the number of unread records is
\* (write_index - read_index) mod CAPACITY, at every fill level.
C8_Original ==
    OutsideCS => Unread = (write_index - read_index + BUFFER_SIZE) % BUFFER_SIZE

\* C8 amended: the equality holds for the fill levels 0..CAPACITY-1; at the
\* fill level CAPACITY the cursors are equal and the expression is 0.
C8_UnreadCount ==
    OutsideCS =>
        /\ Unread \in 0 .. BUFFER_SIZE
        /\ Unread % BUFFER_SIZE
             = (write_index - read_index + BUFFER_SIZE) % BUFFER_SIZE

\* The ring is full after the supervisor has read from it.
C8_Witness == OutsideCS /\ Unread = BUFFER_SIZE /\ Len(readLog) >= 1

\* C9 as stated: a second invocation of cleanup never uses a resource the
\* first one released.
C9_CleanupIdempotent == touched = {} /\ opc # "o_crashed"

\* C10 as stated: a supervisor that went through initialisation and has left
\* made exactly CAPACITY compensating posts on free_slots.
C10_ExactlyCapacityPosts ==
    (opc = "o_exited" /\ IsSet(sem_mutex)) => compPosts = BUFFER_SIZE

\* The supervisor has opened all three semaphores (supervisor.c 144-146).
OwnerInitialised == IsSet(sem_free) /\ IsSet(sem_used) /\ IsSet(sem_mutex)

\* C11: once a supervisor that went through initialisation has exited, by the
\* limit, by a solved graph or by a signal, none of the four names is left.
C11_NamesRemoved == (opc = "o_exited" /\ OwnerInitialised) => names = {}

\* The supervisor has left through handle_signal without having read a record,
\* while no generator had attached.
C11_Witness ==
    /\ opc = "o_exited" /\ OwnerInitialised /\ ctx = "handler"
    /\ readLog = << >> /\ nwritten = 0
    /\ \A p \in DOMAIN gpc : gsem[p].free # "open"

\* C12 as stated: a supervisor that leaves before its initialisation is
\* complete, after a failed step or a signal, has removed every name it
\* created and has not used a failed mapping or semaphore handle on the way.
C12_PartialRollback ==
    (opc \in {"o_exited", "o_crashed"} /\ ~OwnerInitialised)
        => (names = {} /\ touched = {} /\ opc = "o_exited")

\* C13 as stated: when the segment name exists before the supervisor starts,
\* its create fails, so it never holds an open descriptor of the segment, and
\* the cursors of the existing region stay as they were found.
C13_ExclusiveCreate ==
    shm_fd # "open" /\ write_index = 1 /\ read_index = 0

\* C14 as stated: a supervisor that has completed its initialisation finds
\* free_slots = CAPACITY, used_slots = 0, write_mutex = 1, terminate = 0 and
\* both cursors 0, whatever was in the namespace before.
C14_InitialState ==
    opc = "o_loop" =>
        /\ semv = [free |-> BUFFER_SIZE, used |-> 0, mutex |-> 1]
        /\ terminate = 0 /\ write_index = 0 /\ read_index = 0

\* Generators attaching (generator.c 56-77) and generators in the main loop or
\* past it (82-136).
Attaching(p) ==
    gpc[p] \in {"g_shm_open", "g_sem_free", "g_sem_used", "g_sem_mutex",
                "g_sem_check"}
Attached(p) == gpc[p] \in Publishing \cup {"g_loop", "g_detach"}

\* C15: a generator that finds the segment or one of the semaphores missing
\* exits with an error from its attach code, for good; the steps of its attach
\* code leave the namespace, the region and the semaphores as they are; and a
\* generator is in its main loop only after the supervisor has initialised
\* the region and opened all three semaphores.
C15_FailFastAttach ==
    /\ [](\A p \in DOMAIN gpc : Attached(p) => OwnerInitialised)
    /\ [][\A p \in DOMAIN gpc :
            /\ (Attaching(p) /\ gpc'[p] # gpc[p])
                  => /\ UNCHANGED <<names, shmVars, semv>>
                     /\ (gpc[p] = "g_shm_open" /\ SHM_NAME \notin names)
                          => (gpc'[p] = "g_exited" /\ gexit'[p] = 1)
                     /\ (/\ gpc[p] = "g_sem_check"
                         /\ \E f \in {"free", "used", "mutex"} :
                                gsem[p][f] = "failed")
                          => (gpc'[p] = "g_exited" /\ gexit'[p] = 1)
            /\ (gexit'[p] = 1 /\ gexit[p] # 1) => Attaching(p)
            /\ gpc[p] = "g_exited" => gpc'[p] = "g_exited"]_vars

\* One generator attached while the supervisor had created sem_free and not
\* yet sem_mutex, and left with an error; another one is in its loop.
C15_Witness ==
    \E p, q \in DOMAIN gpc :
        /\ gexit[p] = 1 /\ gsem[p].free = "open" /\ gsem[p].mutex = "failed"
        /\ gpc[q] = "g_wait_free"

\* C16: a step that changes the set of names is not a step of a generator,
\* on any of its paths: attach failure, normal exit, terminate observed,
\* interrupted wait.
C16_AsymmetricOwnership == [][names' # names => gpc' = gpc]_vars

\* All four names exist while one generator has failed to attach, and another
\* one has left its loop through an interrupted wait and detached.
C16_Witness ==
    /\ names = {SHM_NAME, SEM_FREE, SEM_USED, SEM_MUTEX} /\ terminate = 0
    /\ \E p, q \in DOMAIN gpc : gexit[p] = 1 /\ gexit[q] = 0

\* C17: solutions_read never exceeds limit; the supervisor waits on
\* used_slots and reads only while solutions_read < limit; and at the loop
\* test with solutions_read = limit it goes to cleanup.
C17_LimitRespected ==
    /\ [](/\ solutions_read <= limit
          /\ opc \in {"o_wait_used", "o_read"} => solutions_read < limit)
    /\ [][(opc = "o_loop" /\ solutions_read = limit /\ opc' # opc)
            => opc' = "c_term"]_vars

\* The supervisor has left its loop at the limit, without a solved graph,
\* while a published record is still unread.
C17_Witness ==
    /\ opc = "c_term" /\ ctx = "ok" /\ solutions_read = limit
    /\ best_edge_count > 0 /\ Unread >= 1

\* C18: the step that handles a record with edge_count = 0 ends the loop and
\* enters cleanup, whatever the limit and the number of unread records; and
\* once cleanup is entered the supervisor neither reads a record nor takes a
\* unit of used_slots.
C18_SolvedTerminal ==
    /\ [][(opc = "o_post_free" /\ osol.edge_count = 0 /\ opc' # opc)
            => (opc' = "c_term" /\ best_edge_count' = 0)]_vars
    /\ [][ShutdownBegun
            => (ShutdownBegun' /\ readLog' = readLog
                /\ semv'.used >= semv.used)]_vars

\* The supervisor has entered cleanup on a record with edge_count = 0 below
\* its limit, while a published record is still unread.
C18_Witness ==
    /\ opc = "c_term" /\ ctx = "ok" /\ best_edge_count = 0
    /\ solutions_read < limit /\ Unread >= 1

\* C19: best_edge_count is MAX_REMOVED_EDGES + 1 when the loop is entered;
\* handling a record makes it the smaller of its old value and the record's
\* edge_count, which keeps it the minimum over the records read; and it
\* changes only on a record with a strictly smaller edge_count.
C19_BestTracking ==
    /\ [][(opc = "o_sem_check" /\ opc' = "o_loop")
            => best_edge_count' = MAX_REMOVED_EDGES + 1]_vars
    /\ [][(opc = "o_post_free" /\ opc' # opc)
            => best_edge_count' = IF osol.edge_count < best_edge_count
                                  THEN osol.edge_count
                                  ELSE best_edge_count]_vars
    /\ [][best_edge_count' # best_edge_count
            => (/\ opc = "o_post_free"
                /\ osol.edge_count < best_edge_count
                /\ best_edge_count' = osol.edge_count)]_vars
    /\ [](opc \in {"o_loop", "o_wait_used", "o_read", "o_post_free"}
            => (best_edge_count = MAX_REMOVED_EDGES + 1 <=> solutions_read = 0))

\* The supervisor is about to compare a record of the same quality as the
\* best it has, after two records were handled.
C19_Witness ==
    /\ opc = "o_post_free" /\ solutions_read = 2
    /\ best_edge_count = 1 /\ osol.edge_count = best_edge_count

\* C20 as stated: in the test run the supervisor ends, in every interleaving,
\* with exactly 5 records read, best_edge_count 0 and exactly one published
\* record unread.
C20_Original ==
    opc = "o_exited"
        => (Len(readLog) = 5 /\ best_edge_count = 0 /\ Unread = 1)

\* C20 amended: the supervisor reads the records in arrival order and at most
\* 5 of them; a record with edge_count 0 ends its loop at once; it ends
\* either solved, with best_edge_count 0 after 2 to 5 records, or at the limit
\* of 5 records with best_edge_count 1; up to CAPACITY published records stay
\* unread.
C20_Scenario ==
    /\ [](/\ Len(readLog) <= ScenarioLimit
          /\ \A k \in 1 .. Len(readLog) : readLog[k] = k)
    /\ [][(opc = "o_post_free" /\ osol.edge_count = 0 /\ opc' # opc)
            => opc' = "c_term"]_vars
    /\ [](opc = "o_exited"
            => /\ \/ best_edge_count = 0 /\ Len(readLog) \in 2 .. ScenarioLimit
                  \/ best_edge_count = 1 /\ Len(readLog) = ScenarioLimit
               /\ Unread \in 0 .. BUFFER_SIZE)

\* The outcome the test run expects: solved on the fifth record, with the
\* sixth one published and unread.
C20_Witness ==
    /\ opc = "o_exited" /\ Len(readLog) = 5 /\ best_edge_count = 0
    /\ Unread = 1 /\ nwritten = 6

\* The steps of the supervisor at which a system call fails.
OwnerFailStep ==
    \/ opc = "o_shm_open" /\ opc' = "o_exited"
    \/ opc = "o_ftruncate" /\ opc' = "c_term" /\ nested' = nested
    \/ opc = "o_mmap" /\ opc' = "c_term" /\ nested' = nested
    \/ /\ opc = "o_sem_check" /\ opc' = "c_term" /\ nested' = nested
       /\ SEM_FAILED \in {sem_free, sem_used, sem_mutex}

C22_DiscardFrame ==
    /\ [][\A p \in DOMAIN gpc :
            (gpc[p] = "g_loop" /\ gpc'[p] = "g_continue")
              => UNCHANGED <<semv, shmVars, names, histVars>>]_vars
    /\ [][\A p \in DOMAIN gpc :
            (gpc[p] = "g_continue" /\ gpc'[p] # "g_continue")
              => (gpc'[p] = "g_loop"
                  /\ UNCHANGED <<semv, shmVars, names, histVars>>)]_vars
    /\ [][\A p \in DOMAIN gpc :
            (gpc[p] = "g_loop" /\ terminate # 0 /\ gpc'[p] # "g_loop")
              => gpc'[p] = "g_detach"]_vars

\* A generator has rejected a candidate while records are unread, and the
\* supervisor has set terminate in the meantime.
C22_Witness ==
    \E p \in DOMAIN gpc :
       gpc[p] = "g_continue" /\ terminate = 1 /\ Unread > 0

\* C23: a generator whose sem_wait(sem_free) returns interrupted, or that finds
\* terminate set right after the wait, goes to its detach code and exits
\* without touching sem_mutex, the ring, write_index or sem_used, and without
\* posting sem_free again.
C23_EarlyLeave ==
    /\ [][\A p \in DOMAIN gpc :
            (gpc[p] \in {"g_wait_free", "g_check_term"} /\ gpc'[p] = "g_detach")
              => UNCHANGED <<semv, shmVars, histVars>>]_vars
    /\ [][\A p \in DOMAIN gpc :
            (gpc[p] = "g_check_term" /\ terminate # 0 /\ gpc'[p] # gpc[p])
              => gpc'[p] = "g_detach"]_vars
    /\ [][\A p \in DOMAIN gpc :
            (gpc[p] = "g_detach" /\ gpc'[p] # gpc[p])
              => (gpc'[p] = "g_exited" /\ UNCHANGED <<semv, shmVars, histVars>>)]_vars
    /\ [][\A p \in DOMAIN gpc :
            gpc[p] = "g_exited" => gpc'[p] = "g_exited"]_vars

\* Both programs have exited and a unit of sem_free that a generator took
\* after terminate was set is gone.
C23_Witness ==
    /\ opc = "o_exited"
    /\ \A p \in DOMAIN gpc : gpc[p] = "g_exited" /\ gexit[p] = 0
    /\ compPosts = BUFFER_SIZE
    /\ semv.free + semv.used < BUFFER_SIZE + compPosts

\* A generator past the flag test of line 113, up to its sem_post(sem_used).
PastCheck(p) ==
    gpc[p] \in {"g_wait_mutex", "g_read_idx", "g_write_buf", "g_write_idx",
                "g_post_mutex", "g_post_used"}

\* C24: once terminate is 1, no generator passes the flag test of line 82 or
\* line 113 again: a generator writes after that only to finish the run of
\* the write protocol it was in, which publishes one record, and then leaves
\* at the loop test.
C24_BoundedShutdown ==
    /\ [][\A p \in DOMAIN gpc :
            (terminate = 1 /\ ~PastCheck(p)) => ~PastCheck(p)']_vars
    /\ [][\A p \in DOMAIN gpc :
            (terminate = 1 /\ gpc[p] = "g_post_used" /\ gpc'[p] # gpc[p])
              => gpc'[p] = "g_loop"]_vars
    /\ [][\A p \in DOMAIN gpc :
            (terminate = 1 /\ gpc[p] = "g_loop" /\ gpc'[p] # gpc[p])
              => gpc'[p] = "g_detach"]_vars

\* With terminate set, one generator is finishing its write run and the other
\* has taken a unit that cleanup posted and is at the flag test.
C24_Witness ==
    /\ terminate = 1
    /\ \E p, q \in DOMAIN gpc :
          /\ gpc[p] = "g_write_buf"
          /\ gpc[q] = "g_check_term"
          /\ compPosts > 0

\* C25: a generator that holds sem_mutex (lines 118-122) can always take its
\* next step, whatever the semaphores hold and whatever the supervisor does,
\* and under fair scheduling every generator that entered the critical
\* section leaves it.
C25_MutexReleased ==
    /\ [](\A p \in Procs : InCS(p) => ENABLED GenNext(p))
    /\ \A p \in Procs : InCS(p) ~> ~InCS(p)

\* A generator holds sem_mutex while the supervisor has already exited and
\* both counting semaphores are at 0.
C25_Witness ==
    \E p \in Procs :
       InCS(p) /\ opc = "o_exited" /\ semv.mutex = 0 /\ terminate = 1

\* C26: terminate changes only in a step of the supervisor's cleanup and only
\* to 1, read_index changes only in the supervisor's read step, write_index
\* and the ring change only in steps of generators; a step of a generator
\* leaves terminate and read_index unchanged, a step of the supervisor leaves
\* write_index and the ring unchanged.
C26_FieldOwnership ==
    /\ [][terminate' # terminate
            => (terminate' = 1 /\ opc = "c_term" /\ gpc' = gpc)]_vars
    /\ [][read_index' # read_index => (opc = "o_read" /\ gpc' = gpc)]_vars
    /\ [][(write_index' # write_index \/ buffer' # buffer)
            => /\ ownerVars' = ownerVars
               /\ \E p \in DOMAIN gpc :
                     gpc[p] \in {"g_write_buf", "g_write_idx"} /\ gpc'[p] # gpc[p]]_vars
    /\ [][gpc' # gpc => UNCHANGED <<terminate, read_index>>]_vars
    /\ [][ownerVars' # ownerVars => UNCHANGED <<write_index, buffer>>]_vars

\* Every field has been written by its owner: records were written and read,
\* both cursors have moved and terminate is set.
C26_Witness ==
    /\ terminate = 1
    /\ write_index # read_index
    /\ read_index = 1
    /\ nwritten >= 2
    /\ Len(readLog) = 1

\* The supervisor has copied out the record that slot i holds, or slot i was
\* never written.
SlotRead(i) ==
    slotRec[i] = 0 \/ \E k \in DOMAIN readLog : readLog[k] = slotRec[i]

\* C27: before and during shutdown, the records in the ring that the
\* supervisor has not copied out, counting a slot whose write is not yet
\* followed by the advance of write_index, never exceed BUFFER_SIZE, and every
\* write of a generator goes to a slot that was never written or whose record
\* the supervisor has copied out.
C27_NoOverwrite ==
    /\ [](Unread + Cardinality({p \in DOMAIN gpc : gpc[p] = "g_write_idx"})
            \in 0 .. BUFFER_SIZE)
    /\ [][\A p \in DOMAIN gpc :
            (gpc[p] = "g_write_buf" /\ gpc'[p] = "g_write_idx")
              => SlotRead(gidx[p])]_vars

\* The ring is full of unread records, cleanup has posted sem_free and a
\* generator that took one of these units has left without writing.
C27_Witness ==
    /\ terminate = 1
    /\ Unread = BUFFER_SIZE
    /\ compPosts = BUFFER_SIZE
    /\ semv.free < compPosts
    /\ \A p \in DOMAIN gpc : gpc[p] \in {"g_detach", "g_exited"}

\* A generator waits on a semaphore whose value is 0.
Blocked(p) ==
    \/ gpc[p] = "g_wait_free" /\ semv.free = 0
    \/ gpc[p] = "g_wait_mutex" /\ semv.mutex = 0

\* The records for which sem_post(sem_used) is done.
Published ==
    nwritten - Cardinality({p \in DOMAIN gpc :
                              gpc[p] \in {"g_post_mutex", "g_post_used"}})

C29_MutexBinary ==
    semv.mutex + Cardinality({p \in DOMAIN gpc : InCS(p)}) <= 1

\* C30: every limit that the option parsing accepts gives an effective limit
\* of at least 1 that is the number on the command line: the value stored in
\* limit is INT_MAX (no -n) or one of the numbers given that fit an int.
C30_LimitAsGiven ==
    [][(opc = "o_parse" /\ opc' = "o_shm_open")
         => /\ limit' >= 1
            /\ limit' = INT_MAX \/ Long(0, limit') \in WideArgs]_vars

====
